---- MODULE Spec2Model ----
(***************************************************************************)
(* Model of the event canister in                                          *)
(* src/icp_rust_boilerplate_backend/src/lib.rs: a durable id counter       *)
(* (ID_COUNTER, a stable Cell in memory region 0), a stable map from id to *)
(* Candid-encoded Event (STORAGE, region 1) and the five request handlers  *)
(* get_event, create_event, update_event, attend_event and delete_event.   *)
(* One request runs to completion before the next starts.  A panic inside  *)
(* a handler traps the call: the handler's writes are discarded and the    *)
(* caller gets no domain value.                                            *)
(***************************************************************************)
EXTENDS Integers, Sequences, FiniteSets, TLC

\* ---------------------------------------------------------------- bounds
\* create_event is explored while the counter is below MaxId.
MaxId == 2
\* create_event and attend_event are explored while the table's load (two
\* for a record, its key and its owner, and one for each attendee entry)
\* stays within MaxLoad.
MaxLoad == 4

\* ------------------------------------------------------ program constants
\* BoundedStorable::MAX_SIZE of Event.
MAX_SIZE == 1024
\* The default handed to IdCell::init.
CounterDefault == 0
\* Bytes of the Candid header of an encoded Event: "DIDL", the type table
\* (record of nine fields, vec text, opt nat64) and the argument list.
CandidHeaderLen == 65
\* Bytes of a nat64.
Nat64Len == 8
\* Characters of the textual form of a self-authenticating principal.
PrincipalTextLen == 63
\* Length of the long text the token "BIG" stands for: three quarters of
\* MAX_SIZE, so that one such field fits a record and two do not.
BigTextLen == (3 * MAX_SIZE) \div 4

\* ------------------------------------------------------------ input sets
\* caller(): the identities the host can hand to a call.
Callers == {"A", "B"}

\* Ids a request can name: the ids create_event can issue.
Ids == 0..(MaxId - 1)

\* time(): the timestamps the host's clock shows.
Times == {0, 1}

\* EventPayload values: the scenario payload, one with a long description
\* and one whose encoding can never fit MAX_SIZE.
PayloadLaunch ==
    [eventDescription |-> "D", eventTitle |-> "Launch",
     eventLocation |-> "HQ", eventCardImgUrl |-> "u"]

PayloadLong ==
    [eventDescription |-> "BIG", eventTitle |-> "T",
     eventLocation |-> "L", eventCardImgUrl |-> "v"]

PayloadHuge ==
    [eventDescription |-> "BIG", eventTitle |-> "BIG",
     eventLocation |-> "L", eventCardImgUrl |-> "v"]

Payloads == {PayloadLaunch, PayloadLong, PayloadHuge}

\* Option<u64>: None is the empty sequence, Some(t) is <<t>>.
None == << >>

Some(t) == <<t>>

VARIABLES
    region0,    \* bytes of memory region 0: << >> when blank, <<v>> once the cell is written
    counter,    \* the value the IdCell caches on the heap
    region1,    \* the stable map of region 1: id -> encoded Event
    now,        \* ic_cdk::api::time()
    result,     \* the response of the call handled by the last step
    issued,     \* ids returned by create_event so far, in order
    deleted,    \* ids removed by a successful delete_event
    creator     \* id -> caller of the create_event that returned it

vars == <<region0, counter, region1, now, result, issued, deleted, creator>>

store == <<region0, counter, region1>>

\* ----------------------------------------------------------------- codec
\* Length in bytes of a text value.
StrLen(s) ==
    IF s = "BIG" THEN BigTextLen
    ELSE IF s \in Callers THEN PrincipalTextLen
    ELSE Len(s)

\* Bytes of the LEB128 length prefix (one below 128, two below 16384).
Leb128Len(n) == IF n < 128 THEN 1 ELSE 2

TextLen(s) == Leb128Len(StrLen(s)) + StrLen(s)

RECURSIVE VecTextLen(_)
VecTextLen(v) ==
    IF v = << >> THEN 0 ELSE TextLen(Head(v)) + VecTextLen(Tail(v))

to_bytes_without_update(e) ==
    <<e.id, None, e.eventDescription, e.owner, e.created_at,
      e.eventTitle, e.eventLocation, e.attendees, e.eventCardImgUrl>>

\* Encode!(self): the record's fields in Candid order (ascending hash of
\* the field name).
to_bytes(e) ==
    <<e.id, e.updated_at, e.eventDescription, e.owner, e.created_at,
      e.eventTitle, e.eventLocation, e.attendees, e.eventCardImgUrl>>

from_bytes_misplaced(b) ==
    [id |-> b[1], eventDescription |-> b[6], owner |-> b[4],
     eventTitle |-> b[3], eventLocation |-> b[7], eventCardImgUrl |-> b[9],
     attendees |-> b[8], created_at |-> b[5], updated_at |-> b[2]]

\* Decode!(bytes, Self)
from_bytes(b) ==
    [id |-> b[1], eventDescription |-> b[3], owner |-> b[4],
     eventTitle |-> b[6], eventLocation |-> b[7], eventCardImgUrl |-> b[9],
     attendees |-> b[8], created_at |-> b[5], updated_at |-> b[2]]

\* Number of bytes of an encoded Event.
BytesLen(b) ==
    CandidHeaderLen
    + Nat64Len
    + (IF b[2] = None THEN 1 ELSE 1 + Nat64Len)
    + TextLen(b[3]) + TextLen(b[4])
    + Nat64Len
    + TextLen(b[6]) + TextLen(b[7])
    + Leb128Len(Len(b[8])) + VecTextLen(b[8])
    + TextLen(b[9])

\* ------------------------------------------------------- storage helpers
CellInitValueForgets(mem, default) == default

\* Cell::init: a blank region gets the default, otherwise the stored value
\* is loaded.
CellInitValue(mem, default) == IF mem = << >> THEN default ELSE mem[1]

CellSetBytesStale(v) == <<CounterDefault>>

\* Cell::set: the bytes written to the region.
CellSetBytes(v) == <<v>>

\* StableBTreeMap::get
MapGet(m, id) == IF id \in DOMAIN m THEN Some(from_bytes(m[id])) ELSE None

MapInsertAtSize(m, id, e) ==
    [k \in DOMAIN m \cup {Cardinality(DOMAIN m)} |->
        IF k = Cardinality(DOMAIN m) THEN to_bytes(e) ELSE m[k]]

MapInsertAlone(m, id, e) == [k \in {id} |-> to_bytes(e)]

\* StableBTreeMap::insert
MapInsert(m, id, e) ==
    [k \in DOMAIN m \cup {id} |-> IF k = id THEN to_bytes(e) ELSE m[k]]

MapRemoveClears(m, id) == [k \in {} |-> << >>]

MapRemoveKeeps(m, id) == m

MapRemoveNeighbour(m, id) ==
    IF id \in DOMAIN m \/ DOMAIN m = {}
    THEN [k \in DOMAIN m \ {id} |-> m[k]]
    ELSE LET n == CHOOSE x \in DOMAIN m : \A y \in DOMAIN m : x <= y
         IN [k \in DOMAIN m \ {n} |-> m[k]]

\* StableBTreeMap::remove
MapRemove(m, id) == [k \in DOMAIN m \ {id} |-> m[k]]

InsertNeverPanics(e) == FALSE

\* StableBTreeMap::insert asserts the value fits BoundedStorable::MAX_SIZE.
InsertPanics(e) == BytesLen(to_bytes(e)) > MAX_SIZE

\* _get_event
_get_event(id) == MapGet(region1, id)

EmptyMap == [k \in {} |-> << >>]

\* Load of the table: two for each record and one for each attendee entry.
RECURSIVE LoadOf(_, _)
LoadOf(m, S) ==
    IF S = {} THEN 0
    ELSE LET k == CHOOSE x \in S : TRUE
         IN 2 + Len(from_bytes(m[k]).attendees) + LoadOf(m, S \ {k})

TableLoad == LoadOf(region1, DOMAIN region1)

\* ------------------------------------------------------------- responses
NoEvent == << >>

NoPayload == << >>

\* What a step showed its caller: the call (op, caller, id, payload), the
\* kind of the reply and the Event it carried.
Response(op, c, id, payload, kind, ev) ==
    [op |-> op, caller |-> c, id |-> id, payload |-> payload,
     kind |-> kind, ev |-> ev]

NoCall == Response("none", "", 0, NoPayload, "none", NoEvent)

Restarted == Response("restart", "", 0, NoPayload, "none", NoEvent)

\* A panic traps the call: nothing it wrote is kept.
Trapped(op, c, id, payload) ==
    /\ result' = Response(op, c, id, payload, "Trap", NoEvent)
    /\ UNCHANGED <<store, now, issued, deleted, creator>>

\* ----------------------------------------------------------------- Init
\* The thread-locals after their first use on a blank memory.
Init ==
    /\ region0 = CellSetBytes(CellInitValue(<< >>, CounterDefault))
    /\ counter = CellInitValue(<< >>, CounterDefault)
    /\ region1 = EmptyMap
    /\ now = 0
    /\ result = NoCall
    /\ issued = << >>
    /\ deleted = {}
    /\ creator = EmptyMap

\* -------------------------------------------------------------- handlers
\* The reply of get_event (a query: it reads the caller of no one).
get_event_reply(id) ==
    IF _get_event(id) # None
    THEN Response("get_event", "", id, NoPayload, "Ok", _get_event(id)[1])
    ELSE Response("get_event", "", id, NoPayload, "NotFound", NoEvent)

get_event(id) ==
    /\ result' = get_event_reply(id)
    /\ UNCHANGED <<store, now, issued, deleted, creator>>

\* The event create_event builds for the id it got from the counter.
NewEvent(id, c, payload) ==
    [id |-> id,
     eventDescription |-> payload.eventDescription,
     owner |-> c,
     eventTitle |-> payload.eventTitle,
     eventLocation |-> payload.eventLocation,
     eventCardImgUrl |-> payload.eventCardImgUrl,
     attendees |-> << >>,
     created_at |-> now,
     updated_at |-> None]

NextIdAfterSet(current_value) == current_value + 1

\* The id create_event takes: Cell::set returns the previous value.
NextId(current_value) == current_value

IncrementedByTwo(current_value) == current_value + 2

NotIncremented(current_value) == current_value

\* The value create_event hands to Cell::set.
Incremented(current_value) == current_value + 1

create_event(c, payload) ==
    /\ counter < MaxId
    /\ TableLoad + 2 <= MaxLoad
    /\ LET current_value == counter
           id == NextId(current_value)
           event == NewEvent(id, c, payload)
       IN IF InsertPanics(event)
          THEN Trapped("create_event", c, id, payload)
          ELSE /\ counter' = Incremented(current_value)
               /\ region0' = CellSetBytes(Incremented(current_value))
               /\ region1' = MapInsert(region1, event.id, event)
               /\ result' = Response("create_event", c, id, payload, "Ok", event)
               /\ issued' = Append(issued, id)
               /\ creator' = [k \in DOMAIN creator \cup {id} |->
                                 IF k = id THEN c ELSE creator[k]]
               /\ UNCHANGED <<now, deleted>>

UpdatedEventRestamps(event, payload) ==
    [event EXCEPT !.eventDescription = payload.eventDescription,
                  !.eventTitle = payload.eventTitle,
                  !.eventLocation = payload.eventLocation,
                  !.eventCardImgUrl = payload.eventCardImgUrl,
                  !.created_at = now,
                  !.updated_at = Some(now)]

\* The record update_event writes back.
UpdatedEvent(event, payload) ==
    [event EXCEPT !.eventDescription = payload.eventDescription,
                  !.eventTitle = payload.eventTitle,
                  !.eventLocation = payload.eventLocation,
                  !.eventCardImgUrl = payload.eventCardImgUrl,
                  !.updated_at = Some(now)]

update_event(c, id, payload) ==
    IF MapGet(region1, id) # None
    THEN LET event == UpdatedEvent(MapGet(region1, id)[1], payload)
         IN IF InsertPanics(event)
            THEN Trapped("update_event", c, id, payload)
            ELSE /\ region1' = MapInsert(region1, event.id, event)
                 /\ result' = Response("update_event", c, id, payload, "Ok", event)
                 /\ UNCHANGED <<region0, counter, now, issued, deleted, creator>>
    ELSE /\ result' = Response("update_event", c, id, payload, "NotFound", NoEvent)
         /\ UNCHANGED <<store, now, issued, deleted, creator>>

AttendedEventInFront(event, user) ==
    [event EXCEPT !.attendees = <<user>> \o event.attendees]

AttendedEventAsOwner(event, user) ==
    [event EXCEPT !.attendees = Append(event.attendees, user), !.owner = user]

\* The record attend_event writes back.
AttendedEvent(event, user) ==
    [event EXCEPT !.attendees = Append(event.attendees, user)]

attend_event(c, id) ==
    IF MapGet(region1, id) # None
    THEN /\ TableLoad + 1 <= MaxLoad
         /\ LET event == AttendedEvent(MapGet(region1, id)[1], c)
            IN IF InsertPanics(event)
               THEN Trapped("attend_event", c, id, NoPayload)
               ELSE /\ region1' = MapInsert(region1, event.id, event)
                    /\ result' = Response("attend_event", c, id, NoPayload, "Ok", event)
                    /\ UNCHANGED <<region0, counter, now, issued, deleted, creator>>
    ELSE /\ result' = Response("attend_event", c, id, NoPayload, "NotFound", NoEvent)
         /\ UNCHANGED <<store, now, issued, deleted, creator>>

\* remove(&id) runs first; the match on what it returned picks the reply.
delete_event(c, id) ==
    /\ region1' = MapRemove(region1, id)
    /\ IF MapGet(region1, id) # None
       THEN /\ result' = Response("delete_event", c, id, NoPayload, "Ok",
                                  MapGet(region1, id)[1])
            /\ deleted' = deleted \cup {id}
            /\ creator' = [k \in DOMAIN creator \ {id} |-> creator[k]]
       ELSE /\ result' = Response("delete_event", c, id, NoPayload, "NotFound",
                                  NoEvent)
            /\ UNCHANGED <<deleted, creator>>
    /\ UNCHANGED <<region0, counter, now, issued>>

\* ----------------------------------------------------------- environment
\* A restart (canister upgrade): the heap is lost, the thread-locals are
\* initialised again from the two memory regions.
Restart ==
    /\ counter' = CellInitValue(region0, CounterDefault)
    /\ region0' = CellSetBytes(CellInitValue(region0, CounterDefault))
    /\ region1' = region1
    /\ result' = Restarted
    /\ UNCHANGED <<now, issued, deleted, creator>>

\* The host's clock moves on between calls.
Tick ==
    /\ now + 1 \in Times
    /\ now' = now + 1
    /\ result' = NoCall
    /\ UNCHANGED <<store, issued, deleted, creator>>

Next ==
    \/ \E id \in Ids : get_event(id)
    \/ \E c \in Callers, p \in Payloads : create_event(c, p)
    \/ \E c \in Callers, id \in Ids, p \in Payloads : update_event(c, id, p)
    \/ \E c \in Callers, id \in Ids : attend_event(c, id)
    \/ \E c \in Callers, id \in Ids : delete_event(c, id)
    \/ Restart
    \/ Tick

Spec == Init /\ [][Next]_vars

\* ----------------------------------------------------------------- codec
\* The codec on its own: any Event of the bounded value sets is handed to
\* do_insert (to_bytes) and read back through get_event (from_bytes).
AttendeeLists == UNION {[1..n -> Callers] : n \in 0..(MaxLoad - 2)}

CodecEvents ==
    [id : Ids,
     eventDescription : {"D", "BIG"},
     owner : Callers,
     eventTitle : {"Launch", "BIG"},
     eventLocation : {"HQ"},
     eventCardImgUrl : {"u"},
     attendees : AttendeeLists,
     created_at : Times,
     updated_at : {None} \cup {Some(t) : t \in Times}]

\* do_insert of e into the table while it is empty.
CodecStore(e) ==
    /\ region1 = EmptyMap
    /\ IF InsertPanics(e)
       THEN Trapped("do_insert", e.owner, e.id, NoPayload)
       ELSE /\ region1' = MapInsert(region1, e.id, e)
            /\ result' = Response("do_insert", e.owner, e.id, NoPayload, "Ok", e)
            /\ UNCHANGED <<region0, counter, now, issued, deleted, creator>>

NextCodec ==
    \/ \E e \in CodecEvents : CodecStore(e)
    \/ \E id \in Ids : get_event(id)

SpecCodec == Init /\ [][NextCodec]_vars

\* ================================================================ claims
\* The record stored under id.
Stored(id) == from_bytes(region1[id])

Range(f) == {f[i] : i \in DOMAIN f}

Mutators == {"update_event", "attend_event", "delete_event"}

\* C1: the ids returned by successive create_event calls are strictly
\* increasing, whatever other calls and restarts come between them, so no
\* id is returned twice.
C1_IdsStrictlyIncreasing ==
    \A i, j \in 1..Len(issued) : i < j => issued[i] < issued[j]

\* Two ids have been issued, the second after a delete and to a counter
\* that a restart has just loaded again.
C1_Witness ==
    /\ Len(issued) >= 2
    /\ deleted # {}
    /\ result = Restarted

\* C2: update_event on an existing event by a caller that is not its owner
\* returns NotAuthorized and leaves the stored record unchanged.
C2_NonOwnerUpdateRejected ==
    [][(/\ result'.op = "update_event"
        /\ result'.id \in DOMAIN region1
        /\ Stored(result'.id).owner # result'.caller)
       => (/\ result'.kind = "NotAuthorized"
           /\ region1' = region1)]_vars

\* C3: delete_event on an existing event by a caller that is not its owner
\* returns NotAuthorized and the record stays stored, unchanged.
C3_NonOwnerDeleteRejected ==
    [][(/\ result'.op = "delete_event"
        /\ result'.id \in DOMAIN region1
        /\ Stored(result'.id).owner # result'.caller)
       => (/\ result'.kind = "NotAuthorized"
           /\ region1' = region1)]_vars

\* C4: attend_event by an identity that already attends the event returns
\* AlreadyAttending and adds no entry, so two calls by the same identity
\* make the attendee list grow by exactly one.
C4_SecondAttendRejected ==
    [][(/\ result'.op = "attend_event"
        /\ result'.id \in DOMAIN region1
        /\ result'.caller \in Range(Stored(result'.id).attendees))
       => (/\ result'.kind = "AlreadyAttending"
           /\ region1' = region1)]_vars

\* C5: the attendee list of every stored event holds no identity twice.
C5_NoDuplicateAttendee ==
    \A k \in DOMAIN region1 :
        \A i, j \in 1..Len(Stored(k).attendees) :
            i # j => Stored(k).attendees[i] # Stored(k).attendees[j]

\* C6: right after create_event(p) returned event e, get_event(e.id)
\* replies with a record equal to e: its id is the one issued, its four
\* payload fields are those of p, its owner is the creating caller, it has
\* no attendee, created_at is the time of the call and updated_at is absent.
C6_GetAfterCreate ==
    (result.op = "create_event" /\ result.kind = "Ok")
    => /\ get_event_reply(result.ev.id).kind = "Ok"
       /\ get_event_reply(result.ev.id).ev = result.ev
       /\ get_event_reply(result.ev.id).ev =
            [id |-> issued[Len(issued)],
             eventDescription |-> result.payload.eventDescription,
             owner |-> result.caller,
             eventTitle |-> result.payload.eventTitle,
             eventLocation |-> result.payload.eventLocation,
             eventCardImgUrl |-> result.payload.eventCardImgUrl,
             attendees |-> << >>,
             created_at |-> now,
             updated_at |-> None]

\* create_event has just returned a second event, with a long description,
\* while an earlier event is still stored.
C6_Witness ==
    /\ result.op = "create_event"
    /\ result.kind = "Ok"
    /\ result.payload = PayloadLong
    /\ result.ev.id > 0
    /\ Cardinality(DOMAIN region1) = 2

\* C7: once delete_event(id) has succeeded, get_event(id) replies NotFound
\* in every later state: no create_event issues the id again and no
\* update_event or attend_event brings the record back.
C7_DeletedStaysGone ==
    \A id \in deleted : get_event_reply(id).kind = "NotFound"

\* An id was deleted, a later create_event stored a new record, and an
\* update_event or attend_event then named the deleted id.
C7_Witness ==
    /\ \E id \in deleted : \E k \in DOMAIN region1 : k > id
    /\ result.op \in {"update_event", "attend_event"}
    /\ result.id \in deleted

\* C8: in every state, also after a restart, the counter (the value stored
\* in region 0 and the value the cell holds) is at least the largest id
\* issued plus one, and so greater than every key of the table.
C8_CounterAboveIssued ==
    /\ region0 # << >>
    /\ \A i \in 1..Len(issued) :
          issued[i] + 1 <= region0[1] /\ issued[i] + 1 <= counter
    /\ \A k \in DOMAIN region1 : k < region0[1] /\ k < counter

\* A restart has just reloaded the counter while the table holds a record
\* under the largest id issued.
C8_Witness ==
    /\ result = Restarted
    /\ issued # << >>
    /\ issued[Len(issued)] \in DOMAIN region1

\* C9: the owner of a stored record is the caller of the create_event that
\* issued its id, from creation until the record is deleted, whoever calls
\* update_event and attend_event on it.
C9_OwnerIsCreator ==
    \A k \in DOMAIN region1 :
        k \in DOMAIN creator /\ Stored(k).owner = creator[k]

\* A record that someone other than its owner attends has just been
\* updated by a caller who is not its owner.
C9_Witness ==
    /\ result.op = "update_event"
    /\ result.kind = "Ok"
    /\ result.id \in DOMAIN region1
    /\ result.caller # Stored(result.id).owner
    /\ \E a \in Range(Stored(result.id).attendees) : a # Stored(result.id).owner

\* C10: an update_event, attend_event or delete_event call that returns an
\* error (NotFound, NotAuthorized or AlreadyAttending) leaves the whole
\* table and the counter as they were before the call.
C10_ErrorChangesNothing ==
    [][(/\ result'.op \in Mutators
        /\ result'.kind \in {"NotFound", "NotAuthorized", "AlreadyAttending"})
       => UNCHANGED <<region0, counter, region1>>]_vars

\* A call on a missing id has just returned NotFound while the table holds
\* a record under a larger id.
C10_Witness ==
    /\ result.op \in Mutators
    /\ result.kind = "NotFound"
    /\ \E k \in DOMAIN region1 : k > result.id

\* The first create_event of a store that started blank has just returned.
FirstCreateReturned ==
    /\ result.op = "create_event"
    /\ result.kind = "Ok"
    /\ Len(issued) = 1

\* C11 (as claimed): on a fresh store the first create_event, by identity
\* A, returns an event with id 1, owner A and no attendee.
C11_FirstIdIsOne ==
    (FirstCreateReturned /\ result.caller = "A")
    => /\ result.ev.id = 1
       /\ result.ev.owner = "A"
       /\ result.ev.attendees = << >>

\* C11 (amended): on a fresh store the first create_event, by identity A,
\* returns an event with id 0 (the default the counter starts from), owner
\* A and no attendee.
C11_FirstIdIsDefault ==
    (FirstCreateReturned /\ result.caller = "A")
    => /\ result.ev.id = CounterDefault
       /\ result.ev.owner = "A"
       /\ result.ev.attendees = << >>

\* A has just made the first create_event of the store, with the scenario
\* payload.
C11_Witness ==
    /\ FirstCreateReturned
    /\ result.caller = "A"
    /\ result.payload = PayloadLaunch
    /\ deleted = {}

\* C12: create_event, when the counter holds v before the call, returns an
\* event whose id is v and leaves the counter (the cell and region 0)
\* holding v + 1.
C12_CreateTakesCounter ==
    [][(result'.op = "create_event" /\ result'.kind = "Ok")
       => (/\ result'.ev.id = counter
           /\ counter' = counter + 1
           /\ region0' = <<counter + 1>>)]_vars

\* create_event has just returned the id 1 from a counter that held 1.
C12_Witness ==
    /\ result.op = "create_event"
    /\ result.kind = "Ok"
    /\ result.ev.id = 1
    /\ counter = 2

\* C13: a restart, which builds the counter again from region 0 and the
\* table from region 1, leaves the counter value and every id -> record
\* mapping as they were; the default 0 is the counter of the store that
\* starts blank, and no restart after an id was issued brings it back.
C13_RestartKeepsState ==
    /\ (counter = CounterDefault /\ issued = << >>)
    /\ [][(result' = Restarted)
          => (/\ counter' = counter
              /\ region0' = region0
              /\ region1' = region1
              /\ (issued # << >> => counter' # CounterDefault))]_vars

\* A restart has just happened with two ids issued and a record, updated
\* and attended, in the table.
C13_Witness ==
    /\ result = Restarted
    /\ counter = 2
    /\ \E k \in DOMAIN region1 :
          Stored(k).updated_at # None /\ Stored(k).attendees # << >>

\* The record the call shown in r would write, given the state before it.
WouldWrite(r) ==
    IF r.op = "create_event" THEN NewEvent(counter, r.caller, r.payload)
    ELSE IF r.op = "update_event" THEN UpdatedEvent(Stored(r.id), r.payload)
    ELSE AttendedEvent(Stored(r.id), r.caller)

Writes(r) ==
    \/ r.op = "create_event"
    \/ r.op \in {"update_event", "attend_event"} /\ r.id \in DOMAIN region1

\* C14: every record of the table has at most MAX_SIZE (1024) encoded
\* bytes; a create_event, update_event or attend_event whose record would
\* have more ends in a trap (no domain error, no reply) and leaves the
\* table as it was.  Step by step: a trap changes no record; a call that
\* does not trap writes only records that fit, and it either stores the
\* very record it was to write or, replying with an error, was to write
\* one that fits.
C14_RecordsFitMaxSize ==
    [][IF result'.kind = "Trap"
       THEN region1' = region1 /\ result'.ev = NoEvent
       ELSE /\ \A k \in DOMAIN region1' :
                 \/ (k \in DOMAIN region1 /\ region1'[k] = region1[k])
                 \/ BytesLen(region1'[k]) <= MAX_SIZE
            /\ Writes(result')
               => IF result'.kind = "Ok"
                  THEN /\ result'.ev.id \in DOMAIN region1'
                       /\ region1'[result'.ev.id] = to_bytes(WouldWrite(result'))
                  ELSE BytesLen(to_bytes(WouldWrite(result'))) <= MAX_SIZE]_vars

\* attend_event has just trapped on a stored record that one more attendee
\* would push over MAX_SIZE.
C14_Witness ==
    /\ result.op = "attend_event"
    /\ result.kind = "Trap"
    /\ result.id \in DOMAIN region1
    /\ BytesLen(region1[result.id]) <= MAX_SIZE
    /\ BytesLen(to_bytes(AttendedEvent(Stored(result.id), result.caller))) > MAX_SIZE

\* The record stored under id after the step.
StoredNext(id) == from_bytes(region1'[id])

\* The step is a successful update_event on id.
UpdatedNow(id) ==
    /\ result'.op = "update_event"
    /\ result'.kind = "Ok"
    /\ result'.id = id

\* C15: a record is created with updated_at absent and created_at the
\* time of the call; every successful update_event on it sets updated_at
\* to the current time, nothing else changes updated_at, and nothing
\* (update_event and attend_event included) changes created_at.
C15_Timestamps ==
    [][\A k \in DOMAIN region1' :
          IF k \in DOMAIN region1
          THEN /\ StoredNext(k).created_at = Stored(k).created_at
               /\ StoredNext(k).updated_at =
                     (IF UpdatedNow(k) THEN Some(now) ELSE Stored(k).updated_at)
          ELSE /\ StoredNext(k).created_at = now
               /\ StoredNext(k).updated_at = None]_vars

\* A record created at time 0 was updated at time 1 and has just been
\* attended.
C15_Witness ==
    /\ result.op = "attend_event"
    /\ result.kind = "Ok"
    /\ result.ev.created_at = 0
    /\ result.ev.updated_at = Some(1)
    /\ Stored(result.id) = result.ev

C17_AttendAppendsCaller ==
    [][(result'.op = "attend_event" /\ result'.kind = "Ok")
       => (/\ result'.id \in DOMAIN region1
           /\ result'.id \in DOMAIN region1'
           /\ StoredNext(result'.id) = result'.ev
           /\ result'.ev.attendees =
                 Append(Stored(result'.id).attendees, result'.caller)
           /\ [result'.ev EXCEPT !.attendees = Stored(result'.id).attendees]
                 = Stored(result'.id))]_vars

\* B has just attended an updated record that A attended before.
C17_Witness ==
    /\ result.op = "attend_event"
    /\ result.kind = "Ok"
    /\ result.ev.attendees = <<"A", "B">>
    /\ result.ev.updated_at # None
    /\ result.ev.eventDescription = "D"

\* C18: a successful delete_event(id) returns the record that was stored
\* under id right before the call, with every earlier update_event and
\* attend_event in it, and removes that key and no other from the table.
C18_DeleteReturnsStored ==
    [][(result'.op = "delete_event" /\ result'.kind = "Ok")
       => (/\ result'.id \in DOMAIN region1
           /\ result'.ev = Stored(result'.id)
           /\ DOMAIN region1' = DOMAIN region1 \ {result'.id}
           /\ \A k \in DOMAIN region1' : region1'[k] = region1[k])]_vars

\* delete_event has just returned an updated record while another record
\* stays in the table.
C18_Witness ==
    /\ result.op = "delete_event"
    /\ result.kind = "Ok"
    /\ result.ev.updated_at = Some(1)
    /\ result.ev.eventDescription = "BIG"
    /\ region1 # EmptyMap
    /\ result.id \notin DOMAIN region1

\* C19: every record of the table is stored under the key equal to its own
\* id field.
C19_KeyIsId ==
    \A k \in DOMAIN region1 : Stored(k).id = k

\* The table holds a record under 1 and none under 0, after a delete, and
\* the record under 1 has just been updated.
C19_Witness ==
    /\ DOMAIN region1 = {1}
    /\ 0 \in deleted
    /\ result.op = "update_event"
    /\ result.kind = "Ok"
    /\ result.id = 1

====
